---- MODULE Spec2Model ----
(***************************************************************************)
(* Dungeness River Monitor (src/dungeness_monitor.py).                     *)
(*                                                                         *)
(* One fragment, show_river_data, is re-run every 60 seconds: it fetches   *)
(* the latest reading of USGS gauge 12048000, classifies the flow into a   *)
(* severity band (get_flow_status) and renders the two-bar gauge           *)
(* (generate_html), or shows an error.                                     *)
(*                                                                         *)
(* Numbers.  Flows are Python floats in CFS.  Every threshold of the       *)
(* program is a multiple of 0.5 CFS, so a flow is modelled as an integer   *)
(* count of half CFS (CFS(120) = 240, CFSHalf(62) = 62.5 CFS = 125).       *)
(* Percentages (marker positions, segment widths) are exact rationals in   *)
(* lowest terms, [n |-> numerator, d |-> denominator], so that equality    *)
(* of two percentages is equality of records.  Rounding of the floating    *)
(* point arithmetic is not modelled.                                       *)
(***************************************************************************)
EXTENDS Integers, Sequences, FiniteSets

VARIABLES
    response,   \* what requests.get produced in the latest run of the fragment
    page        \* what the fragment shows after its latest run

vars == <<response, page>>

(***************************************************************************)
(* Bounds of the explored inputs.                                          *)
(***************************************************************************)
NearBand == 1   \* flows within NearBand half-CFS steps of every threshold
MaxGrid  == 14  \* coarse grid: k * 500 CFS for k in 0..MaxGrid
MaxNeg   == 2   \* negative flows: -k CFS and -(k - 0.5) CFS for k in 1..MaxNeg

(***************************************************************************)
(* Units and exact rationals.                                              *)
(***************************************************************************)
CFS(n) == 2 * n
CFSHalf(n) == 2 * n + 1

Abs(n) == IF n < 0 THEN -n ELSE n

RECURSIVE GCD(_, _)
GCD(a, b) == IF b = 0 THEN a ELSE GCD(b, a % b)

\* n / d as a rational in lowest terms (d > 0)
Frac(n, d) == LET g == GCD(Abs(n), d) IN [n |-> n \div g, d |-> d \div g]

Whole(n) == [n |-> n, d |-> 1]

FracLess(a, b) == a.n * b.d < b.n * a.d

FracAdd(a, b) == Frac(a.n * b.d + b.n * a.d, a.d * b.d)

\* Python's min(a, b) and max(a, b): the first argument wins a tie
PyMin(a, b) == IF FracLess(b, a) THEN b ELSE a
PyMax(a, b) == IF FracLess(a, b) THEN b ELSE a

(***************************************************************************)
(* Constants of the program.                                               *)
(***************************************************************************)
GAUGE_ID == "12048000"

\* the sentinel range_max of the open-ended top band
Sentinel == CFS(99999)

(***************************************************************************)
(* get_flow_status: the chain of if / elif conditions and the status each  *)
(* branch assigns.                                                         *)
(***************************************************************************)
DefaultStatus ==
    [bg_color |-> "white", text |-> "Unknown Flow", blink |-> FALSE,
     range_min |-> 0, range_max |-> CFS(100)]

Matches_lowerInclusive(k, flow) ==
    CASE k = 1 -> 0 <= flow /\ flow <= CFSHalf(62)
      [] k = 2 -> CFSHalf(62) <= flow /\ flow < CFS(120)
      [] k = 3 -> CFS(120) <= flow /\ flow < CFS(238)
      [] k = 4 -> CFS(238) <= flow /\ flow < CFS(582)
      [] k = 5 -> CFS(582) <= flow /\ flow < CFS(2700)
      [] k = 6 -> CFS(2700) <= flow /\ flow < CFS(4275)
      [] k = 7 -> CFS(4275) <= flow /\ flow < CFS(6200)
      [] k = 8 -> flow >= CFS(6200)

Matches_overlap(k, flow) ==
    CASE k = 1 -> 0 <= flow /\ flow <= CFSHalf(62)
      [] k = 2 -> CFSHalf(62) <= flow /\ flow <= CFS(120)
      [] k = 3 -> CFS(120) < flow /\ flow <= CFS(238)
      [] k = 4 -> CFS(238) < flow /\ flow <= CFS(582)
      [] k = 5 -> CFS(582) < flow /\ flow <= CFS(2700)
      [] k = 6 -> CFS(2700) < flow /\ flow <= CFS(4275)
      [] k = 7 -> CFS(4275) < flow /\ flow < CFS(6200)
      [] k = 8 -> flow > CFS(6200)

Matches_noLowerBound(k, flow) ==
    CASE k = 1 -> flow <= CFSHalf(62)
      [] k = 2 -> CFSHalf(62) < flow /\ flow <= CFS(120)
      [] k = 3 -> CFS(120) < flow /\ flow <= CFS(238)
      [] k = 4 -> CFS(238) < flow /\ flow <= CFS(582)
      [] k = 5 -> CFS(582) < flow /\ flow <= CFS(2700)
      [] k = 6 -> CFS(2700) < flow /\ flow <= CFS(4275)
      [] k = 7 -> CFS(4275) < flow /\ flow <= CFS(6200)
      [] k = 8 -> flow > CFS(6200)

\* the condition of the k-th branch
Matches(k, flow) ==
    CASE k = 1 -> 0 <= flow /\ flow <= CFSHalf(62)
      [] k = 2 -> CFSHalf(62) < flow /\ flow <= CFS(120)
      [] k = 3 -> CFS(120) < flow /\ flow <= CFS(238)
      [] k = 4 -> CFS(238) < flow /\ flow <= CFS(582)
      [] k = 5 -> CFS(582) < flow /\ flow <= CFS(2700)
      [] k = 6 -> CFS(2700) < flow /\ flow <= CFS(4275)
      [] k = 7 -> CFS(4275) < flow /\ flow <= CFS(6200)
      [] k = 8 -> flow > CFS(6200)

Band_blinkFloods(k) ==
    CASE k = 1 -> [bg_color |-> "#FF0000", text |-> "Extremely Low- Salmon Endangered",
                   blink |-> TRUE, range_min |-> 0, range_max |-> CFSHalf(62)]
      [] k = 2 -> [bg_color |-> "#FFBF00", text |-> "Critically Low- Withdrawals Reduced",
                   blink |-> FALSE, range_min |-> CFSHalf(62), range_max |-> CFS(120)]
      [] k = 3 -> [bg_color |-> "#FFFF00", text |-> "Low Flow - Conserve",
                   blink |-> FALSE, range_min |-> CFS(120), range_max |-> CFS(238)]
      [] k = 4 -> [bg_color |-> "#0099FF", text |-> "Adequate Flow",
                   blink |-> FALSE, range_min |-> CFS(238), range_max |-> CFS(582)]
      [] k = 5 -> [bg_color |-> "#800080", text |-> "High Flow",
                   blink |-> FALSE, range_min |-> CFS(582), range_max |-> CFS(2700)]
      [] k = 6 -> [bg_color |-> "#FFBF00", text |-> "Flood Alert",
                   blink |-> FALSE, range_min |-> CFS(2700), range_max |-> CFS(4275)]
      [] k = 7 -> [bg_color |-> "#FF0000", text |-> "Minor to Moderate Flood -Take Precautions",
                   blink |-> TRUE, range_min |-> CFS(4275), range_max |-> CFS(6200)]
      [] k = 8 -> [bg_color |-> "#8B0000", text |-> "Extreme Flooding - Evacuation May Be Necessary",
                   blink |-> TRUE, range_min |-> CFS(6200), range_max |-> Sentinel]

\* the status dict the k-th branch assigns (the en dash of the last text is
\* written as a hyphen)
Band(k) ==
    CASE k = 1 -> [bg_color |-> "#FF0000", text |-> "Extremely Low- Salmon Endangered",
                   blink |-> TRUE, range_min |-> 0, range_max |-> CFSHalf(62)]
      [] k = 2 -> [bg_color |-> "#FFBF00", text |-> "Critically Low- Withdrawals Reduced",
                   blink |-> FALSE, range_min |-> CFSHalf(62), range_max |-> CFS(120)]
      [] k = 3 -> [bg_color |-> "#FFFF00", text |-> "Low Flow - Conserve",
                   blink |-> FALSE, range_min |-> CFS(120), range_max |-> CFS(238)]
      [] k = 4 -> [bg_color |-> "#0099FF", text |-> "Adequate Flow",
                   blink |-> FALSE, range_min |-> CFS(238), range_max |-> CFS(582)]
      [] k = 5 -> [bg_color |-> "#800080", text |-> "High Flow",
                   blink |-> FALSE, range_min |-> CFS(582), range_max |-> CFS(2700)]
      [] k = 6 -> [bg_color |-> "#FFBF00", text |-> "Flood Alert",
                   blink |-> FALSE, range_min |-> CFS(2700), range_max |-> CFS(4275)]
      [] k = 7 -> [bg_color |-> "#FF0000", text |-> "Minor to Moderate Flood -Take Precautions",
                   blink |-> FALSE, range_min |-> CFS(4275), range_max |-> CFS(6200)]
      [] k = 8 -> [bg_color |-> "#8B0000", text |-> "Extreme Flooding - Evacuation May Be Necessary",
                   blink |-> TRUE, range_min |-> CFS(6200), range_max |-> Sentinel]

get_flow_status(flow) ==
    IF Matches(1, flow) THEN Band(1)
    ELSE IF Matches(2, flow) THEN Band(2)
    ELSE IF Matches(3, flow) THEN Band(3)
    ELSE IF Matches(4, flow) THEN Band(4)
    ELSE IF Matches(5, flow) THEN Band(5)
    ELSE IF Matches(6, flow) THEN Band(6)
    ELSE IF Matches(7, flow) THEN Band(7)
    ELSE IF Matches(8, flow) THEN Band(8)
    ELSE DefaultStatus

(***************************************************************************)
(* fetch_data.                                                             *)
(*                                                                         *)
(* A timestamp text is [kind |-> "iso", date, clock, zone] for an ISO 8601 *)
(* string (zone "Z", an offset, or "" for none) and [kind |-> "text", raw] *)
(* for any other string.  NoKey stands for a key the properties dict does  *)
(* not have.                                                               *)
(***************************************************************************)
NoKey == [kind |-> "nokey"]

UnknownTime == [kind |-> "text", raw |-> "Unknown Time"]

\* dict.get(key, default)
Get(props, key, default) == IF props[key] = NoKey THEN default ELSE props[key]

\* str.replace('Z', '+00:00') on a timestamp text
ReplaceZ(ts) ==
    IF ts.kind = "iso" /\ ts.zone = "Z"
    THEN [ts EXCEPT !.zone = "+00:00"]
    ELSE ts

\* datetime.fromisoformat raises ValueError unless the string is ISO 8601
\* with no zone or a numeric offset
IsoParses(ts) == ts.kind = "iso" /\ ts.zone # "Z"

\* dt.strftime('%Y-%m-%d %H:%M:%S'): date, a space, wall clock; the offset is dropped
Strftime(dt) == [kind |-> "formatted", date |-> dt.date, clock |-> dt.clock]

\* lines 58-65: pick the timestamp and format it, falling back to the raw text
formatted_time(props) ==
    LET timestamp_str == Get(props, "phenomenonTime", Get(props, "time", UnknownTime))
    IN  IF IsoParses(ReplaceZ(timestamp_str))
        THEN Strftime(ReplaceZ(timestamp_str))
        ELSE timestamp_str

Failure(reason) == [ok |-> FALSE, reason |-> reason]

Reading(flow_val, time) == [ok |-> TRUE, flow |-> flow_val, reading_str |-> time]

fetch_data_zeroDefault(resp) ==
    IF resp.kind = "raise"
    THEN Failure([text |-> "Connection/Parsing Error", detail |-> resp.error])
    ELSE IF resp.status_code # 200
    THEN Failure([text |-> "USGS API Error", detail |-> resp.reason])
    ELSE IF resp.json = "invalid"
    THEN Failure([text |-> "Connection/Parsing Error", detail |-> "JSONDecodeError"])
    ELSE IF resp.has_features /\ Len(resp.features) > 0
    THEN LET props == resp.features[1].properties
         IN  IF props.value.kind # "number"
             THEN Reading(0, formatted_time(props))
             ELSE Reading(props.value.num, formatted_time(props))
    ELSE Failure([text |-> "No data found for this site in the latest-continuous collection.",
                  detail |-> ""])

fetch_data(resp) ==
    IF resp.kind = "raise"
    THEN Failure([text |-> "Connection/Parsing Error", detail |-> resp.error])
    ELSE IF resp.status_code # 200
    THEN Failure([text |-> "USGS API Error", detail |-> resp.reason])
    ELSE IF resp.json = "invalid"
    THEN Failure([text |-> "Connection/Parsing Error", detail |-> "JSONDecodeError"])
    ELSE IF resp.has_features /\ Len(resp.features) > 0
    THEN LET props == resp.features[1].properties
         IN  IF props.value = NoKey
             THEN Failure([text |-> "Connection/Parsing Error", detail |-> "KeyError"])
             ELSE IF props.value.kind # "number"
             THEN Failure([text |-> "Connection/Parsing Error", detail |-> "ValueError"])
             ELSE Reading(props.value.num, formatted_time(props))
    ELSE Failure([text |-> "No data found for this site in the latest-continuous collection.",
                  detail |-> ""])

(***************************************************************************)
(* generate_html.  The result keeps what the markup is built from: the     *)
(* status, the blink flag, the segments of the total-scale bar, the two    *)
(* marker positions and the two axis labels of the zoomed bar.             *)
(***************************************************************************)
category_defs_sentinel ==
    << <<0, CFSHalf(62), "#FF0000">>, <<CFSHalf(62), CFS(120), "#FFBF00">>,
       <<CFS(120), CFS(238), "#FFFF00">>, <<CFS(238), CFS(582), "#0099FF">>,
       <<CFS(582), CFS(2700), "#800080">>, <<CFS(2700), CFS(4275), "#FFBF00">>,
       <<CFS(4275), CFS(6200), "#FF0000">>, <<CFS(6200), Sentinel, "#8B0000">> >>

category_defs_colours ==
    << <<0, CFSHalf(62), "#FF0000">>, <<CFSHalf(62), CFS(120), "#FFBF00">>,
       <<CFS(120), CFS(238), "#FFFF00">>, <<CFS(238), CFS(582), "#0099FF">>,
       <<CFS(582), CFS(2700), "#800080">>, <<CFS(2700), CFS(4275), "#FF0000">>,
       <<CFS(4275), CFS(6200), "#FFBF00">>, <<CFS(6200), CFS(7000), "#8B0000">> >>

\* (lower, upper, colour) of the eight segments of the total-scale bar
category_defs ==
    << <<0, CFSHalf(62), "#FF0000">>, <<CFSHalf(62), CFS(120), "#FFBF00">>,
       <<CFS(120), CFS(238), "#FFFF00">>, <<CFS(238), CFS(582), "#0099FF">>,
       <<CFS(582), CFS(2700), "#800080">>, <<CFS(2700), CFS(4275), "#FFBF00">>,
       <<CFS(4275), CFS(6200), "#FF0000">>, <<CFS(6200), CFS(7000), "#8B0000">> >>

total_scale == CFS(7000)

\* one div per segment: width (e - s) / total_scale * 100 percent, and its colour
bar_html ==
    [i \in 1..Len(category_defs) |->
        [width |-> Frac((category_defs[i][2] - category_defs[i][1]) * 100, total_scale),
         color |-> category_defs[i][3]]]

top_marker_unclamped(flow) == Frac(flow * 100, total_scale)

top_marker(flow) == PyMin(Frac(flow * 100, total_scale), Whole(100))

range_span_total(status) ==
    IF total_scale - status.range_min > CFS(1)
    THEN total_scale - status.range_min
    ELSE CFS(1)

\* max(1, range_max - range_min)
range_span(status) ==
    IF status.range_max - status.range_min > CFS(1)
    THEN status.range_max - status.range_min
    ELSE CFS(1)

btm_marker(flow, status) ==
    PyMax(Whole(0),
          PyMin(Frac((flow - status.range_min) * 100, range_span(status)), Whole(100)))

\* an axis label: a numeral, followed by "+" when plus holds
range_max_lbl_raw(status) == [num |-> status.range_max, plus |-> FALSE]

range_max_lbl(status) ==
    IF status.range_max > CFS(90000)
    THEN [num |-> CFS(9999), plus |-> TRUE]
    ELSE [num |-> status.range_max, plus |-> FALSE]

generate_html(flow, reading_time_str, gauge_id) ==
    LET status == get_flow_status(flow)
    IN  [status |-> status,
         blink_css |-> status.blink,
         flow |-> flow,
         reading_time_str |-> reading_time_str,
         gauge_id |-> gauge_id,
         bar_html |-> bar_html,
         top_marker |-> top_marker(flow),
         btm_marker |-> btm_marker(flow, status),
         range_min_lbl |-> [num |-> status.range_min, plus |-> FALSE],
         range_max_lbl |-> range_max_lbl(status)]

(***************************************************************************)
(* What requests.get can produce.                                          *)
(***************************************************************************)
Thresholds ==
    {0, CFSHalf(62), CFS(120), CFS(238), CFS(582), CFS(2700), CFS(4275),
     CFS(6200), CFS(7000), CFS(9999), Sentinel}

FlowValues ==
    {t + d : t \in Thresholds, d \in (-NearBand)..NearBand}
    \cup {CFS(500 * k) : k \in 0..MaxGrid}
    \cup {-CFS(k) : k \in 1..MaxNeg} \cup {1 - CFS(k) : k \in 1..MaxNeg}
    \cup {CFS(30), CFS(5000), CFS(10000), CFS(250000)}

Values ==
    {[kind |-> "number", num |-> f] : f \in FlowValues}
    \cup {[kind |-> "text", raw |-> "Ice"], NoKey}

PhenomenonTimes ==
    {[kind |-> "iso", date |-> "2024-05-01", clock |-> "12:30:00", zone |-> "Z"],
     [kind |-> "iso", date |-> "2024-05-01", clock |-> "05:30:00", zone |-> "-07:00"],
     [kind |-> "text", raw |-> "yesterday"],
     NoKey}

Times ==
    {[kind |-> "iso", date |-> "2024-04-30", clock |-> "23:45:00", zone |-> ""],
     NoKey}

Properties ==
    [value : Values, phenomenonTime : PhenomenonTimes, time : Times]

OtherFeature ==
    [properties |-> [value |-> [kind |-> "number", num |-> CFS(1)],
                     phenomenonTime |-> NoKey, time |-> NoKey]]

Responses ==
    {[kind |-> "raise", error |-> e] : e \in {"ReadTimeout", "ConnectionError"}}
    \cup {[kind |-> "http", status_code |-> c, reason |-> "error"] : c \in {404, 503}}
    \cup {[kind |-> "http", status_code |-> 200, json |-> "invalid"]}
    \cup {[kind |-> "http", status_code |-> 200, json |-> "object", has_features |-> FALSE]}
    \cup {[kind |-> "http", status_code |-> 200, json |-> "object", has_features |-> TRUE,
           features |-> << >>]}
    \cup {[kind |-> "http", status_code |-> 200, json |-> "object", has_features |-> TRUE,
           features |-> fs] :
              fs \in {<<[properties |-> p]>> : p \in Properties}
                     \cup {<<[properties |-> p], OtherFeature>> :
                              p \in {q \in Properties : q.phenomenonTime = NoKey /\ q.time = NoKey}}}

(***************************************************************************)
(* show_river_data, the fragment Streamlit re-runs every 60 seconds.  The  *)
(* script calls it twice (lines 143 and 145), which puts two independent   *)
(* copies of the fragment on the page; the model follows one of them.      *)
(***************************************************************************)
Init ==
    /\ response = [kind |-> "none"]
    /\ page = [kind |-> "blank"]

show_river_data(resp) ==
    LET fetched == fetch_data(resp)
    IN  /\ response' = resp
        /\ page' = IF fetched.ok
                   THEN [kind |-> "dashboard",
                         html |-> generate_html(fetched.flow, fetched.reading_str, GAUGE_ID),
                         caption |-> "Status: Live | Auto-refreshing"]
                   ELSE [kind |-> "error",
                         error |-> fetched.reason,
                         info |-> "Retrying in 60 seconds..."]

Next == \E resp \in Responses : show_river_data(resp)

Spec == Init /\ [][Next]_vars

(***************************************************************************)
(* Properties.                                                             *)
(*                                                                         *)
(* SpecBands is the band table of the specification, written out on its   *)
(* own: (lower, upper, severity, alert), the first band closed at 0, every *)
(* other band open below and closed above, the top band open-ended with    *)
(* the sentinel as its nominal upper bound.                                *)
(***************************************************************************)
Shown == page.kind = "dashboard"

SpecBands ==
    << [lo |-> 0,           hi |-> CFSHalf(62), alert |-> TRUE,
        label |-> "Extremely Low- Salmon Endangered"],
       [lo |-> CFSHalf(62), hi |-> CFS(120),    alert |-> FALSE,
        label |-> "Critically Low- Withdrawals Reduced"],
       [lo |-> CFS(120),    hi |-> CFS(238),    alert |-> FALSE,
        label |-> "Low Flow - Conserve"],
       [lo |-> CFS(238),    hi |-> CFS(582),    alert |-> FALSE,
        label |-> "Adequate Flow"],
       [lo |-> CFS(582),    hi |-> CFS(2700),   alert |-> FALSE,
        label |-> "High Flow"],
       [lo |-> CFS(2700),   hi |-> CFS(4275),   alert |-> FALSE,
        label |-> "Flood Alert"],
       [lo |-> CFS(4275),   hi |-> CFS(6200),   alert |-> FALSE,
        label |-> "Minor to Moderate Flood -Take Precautions"],
       [lo |-> CFS(6200),   hi |-> CFS(99999),  alert |-> TRUE,
        label |-> "Extreme Flooding - Evacuation May Be Necessary"] >>

InSpecBand(k, flow) ==
    IF k = 1 THEN 0 <= flow /\ flow <= SpecBands[1].hi
    ELSE IF k = 8 THEN SpecBands[8].lo < flow
    ELSE SpecBands[k].lo < flow /\ flow <= SpecBands[k].hi

SpecBandOf(flow) == CHOOSE k \in 1..8 : InSpecBand(k, flow)

Clamp(x) == IF FracLess(x, Whole(0)) THEN Whole(0)
            ELSE IF FracLess(Whole(100), x) THEN Whole(100)
            ELSE x

InPercentRange(x) == ~FracLess(x, Whole(0)) /\ ~FracLess(Whole(100), x)

RECURSIVE SumWidths(_, _)
SumWidths(bar, n) == IF n = 0 THEN Whole(0) ELSE FracAdd(SumWidths(bar, n - 1), bar[n].width)

\* C1: for every flow >= 0 exactly one of the eight branch conditions of
\* get_flow_status holds, and the default status "Unknown Flow" is not returned.
C1_ExactlyOneBand ==
    (Shown /\ page.html.flow >= 0) =>
        /\ Cardinality({k \in 1..8 : Matches(k, page.html.flow)}) = 1
        /\ page.html.status # DefaultStatus
        /\ page.html.status.text # "Unknown Flow"

C1_Witness ==
    /\ Shown
    /\ page.html.flow = CFS(6200)
    /\ {k \in 1..8 : Matches(k, page.html.flow)} = {7}

\* C2: for every flow >= 0 the status returned is the row of the band table
\* whose range contains the flow, a boundary value belonging to the lower
\* band: that band's severity, range_min, range_max, and the alert flag, which
\* is set exactly for the first and the top band.
C2_StatusIsBandRow ==
    (Shown /\ page.html.flow >= 0) =>
        LET k == SpecBandOf(page.html.flow)
            st == page.html.status
        IN  /\ st.text = SpecBands[k].label
            /\ st.range_min = SpecBands[k].lo
            /\ st.range_max = SpecBands[k].hi
            /\ st.blink = SpecBands[k].alert
            /\ st.blink <=> k \in {1, 8}
            /\ page.html.blink_css = st.blink

C2_Witness ==
    /\ Shown
    /\ page.html.flow = CFS(5000)
    /\ page.html.status.text = "Minor to Moderate Flood -Take Precautions"
    /\ ~page.html.status.blink
    /\ page.html.status.range_min = CFS(4275)
    /\ page.html.status.range_max = CFS(6200)

\* C3 as written: a flow of exactly 120 selects "Low Flow - Conserve" with
\* range_min = 120 and range_max = 238.
C3_Original ==
    (Shown /\ page.html.flow = CFS(120)) =>
        /\ page.html.status.text = "Low Flow - Conserve"
        /\ page.html.status.range_min = CFS(120)
        /\ page.html.status.range_max = CFS(238)

\* C3 as amended: a flow of exactly 120 selects "Critically Low- Withdrawals
\* Reduced" with range_min = 62.5 and range_max = 120; "Low Flow - Conserve",
\* range 120 to 238, is selected by the flows above 120 up to 238.
C3_Boundary120IsCriticallyLow ==
    /\ (Shown /\ page.html.flow = CFS(120)) =>
          /\ page.html.status.text = "Critically Low- Withdrawals Reduced"
          /\ page.html.status.range_min = CFSHalf(62)
          /\ page.html.status.range_max = CFS(120)
    /\ (Shown /\ CFS(120) < page.html.flow /\ page.html.flow <= CFS(238)) =>
          /\ page.html.status.text = "Low Flow - Conserve"
          /\ page.html.status.range_min = CFS(120)
          /\ page.html.status.range_max = CFS(238)

C3_Witness ==
    /\ Shown
    /\ page.html.flow = CFS(120)
    /\ page.html.status.range_max = CFS(120)

\* C4 as written: a negative flow is refused: no status record is returned
\* and no gauge is rendered for it.
C4_Original == Shown => page.html.flow >= 0

\* C4 as amended: a negative flow is not refused. get_flow_status returns the
\* default status ("Unknown Flow", white, no blink, range 0 to 100), never one
\* of the eight bands, and generate_html renders the gauge from it: the zoomed
\* marker is clamped to 0, the upper label is 100, and the total-scale marker
\* is flow / 7000 * 100, which is negative.
C4_NegativeFlowIsUnknown ==
    (Shown /\ page.html.flow < 0) =>
        /\ page.html.status = DefaultStatus
        /\ \A k \in 1..8 : page.html.status.text # SpecBands[k].label
        /\ ~page.html.blink_css
        /\ page.html.btm_marker = Whole(0)
        /\ page.html.range_max_lbl = [num |-> CFS(100), plus |-> FALSE]
        /\ page.html.top_marker = Frac(page.html.flow * 100, CFS(7000))
        /\ FracLess(page.html.top_marker, Whole(0))

C4_Witness ==
    /\ Shown
    /\ page.html.flow = -CFS(1)
    /\ page.html.status.text = "Unknown Flow"

\* C5: for every flow >= 0, however large, both marker positions lie in
\* [0, 100].
C5_MarkersInRange ==
    (Shown /\ page.html.flow >= 0) =>
        /\ InPercentRange(page.html.top_marker)
        /\ InPercentRange(page.html.btm_marker)

C5_Witness ==
    /\ Shown
    /\ page.html.flow = CFS(250000)
    /\ page.html.top_marker = Whole(100)
    /\ page.html.btm_marker = Whole(100)

\* C6: the widths of the eight segments of the total-scale bar sum to exactly
\* 100 percent, whatever the flow.
C6_WidthsSumTo100 ==
    Shown =>
        /\ Len(page.html.bar_html) = 8
        /\ SumWidths(page.html.bar_html, Len(page.html.bar_html)) = Whole(100)

C6_Witness ==
    /\ Shown
    /\ page.html.flow = CFS(3000)
    /\ page.html.bar_html[8].width = Frac(CFS(800) * 100, CFS(7000))

\* the first feature's properties of a well-formed response
FirstProps == response.features[1].properties

FlowFetched ==
    /\ response.kind = "http"
    /\ response.status_code = 200
    /\ response.json = "object"
    /\ response.has_features
    /\ Len(response.features) > 0
    /\ FirstProps.value # NoKey
    /\ FirstProps.value.kind = "number"

\* the timestamp text the response carries, if any
TimestampFetched ==
    IF FirstProps.phenomenonTime # NoKey THEN FirstProps.phenomenonTime
    ELSE FirstProps.time

\* C7 as written: the dashboard is rendered only from a reading fetched in
\* that run; a response with a bad status, no feature, an unparsable flow
\* value, or a missing or unparsable timestamp shows an error, never a
\* dashboard with a default flow or a placeholder timestamp.
C7_Original ==
    Shown =>
        /\ FlowFetched
        /\ page.html.flow = FirstProps.value.num
        /\ TimestampFetched # NoKey
        /\ TimestampFetched.kind = "iso"
        /\ page.html.reading_time_str # UnknownTime

\* C7 as amended: the dashboard is rendered exactly when the run fetched a
\* flow value (status 200, a feature, a value float() parses), and then from
\* that value; otherwise an error is shown.  The timestamp is not required:
\* an ISO timestamp is shown reformatted, any other text is shown as it came,
\* and with neither phenomenonTime nor time the placeholder "Unknown Time" is
\* shown.
C7_DashboardOnlyFromFetchedFlow ==
    /\ Shown <=> (response.kind # "none" /\ FlowFetched)
    /\ page.kind = "error" <=> (response.kind # "none" /\ ~FlowFetched)
    /\ Shown =>
          /\ page.html.flow = FirstProps.value.num
          /\ page.html.reading_time_str =
                IF TimestampFetched = NoKey THEN UnknownTime
                ELSE IF TimestampFetched.kind = "iso"
                THEN [kind |-> "formatted", date |-> TimestampFetched.date,
                      clock |-> TimestampFetched.clock]
                ELSE TimestampFetched

C7_Witness ==
    /\ Shown
    /\ TimestampFetched = NoKey
    /\ page.html.reading_time_str = UnknownTime
    /\ page.html.flow = CFS(500)

\* C8 as written: for every flow above 6200 the upper label of the zoomed bar
\* is not the raw sentinel 99999 and denotes a value at or above the flow.
C8_Original ==
    (Shown /\ page.html.flow > CFS(6200)) =>
        /\ page.html.range_max_lbl.num # CFS(99999)
        /\ page.html.range_max_lbl.num >= page.html.flow

\* C8 as amended: for every flow above 6200 the upper label of the zoomed bar
\* is the fixed text "9999+", never the raw sentinel 99999; its numeral is at
\* or above the flow only for flows up to 9999.
C8_TopLabelIs9999Plus ==
    (Shown /\ page.html.flow > CFS(6200)) =>
        /\ page.html.range_max_lbl = [num |-> CFS(9999), plus |-> TRUE]
        /\ page.html.range_max_lbl.num # CFS(99999)
        /\ page.html.range_max_lbl.num >= page.html.flow <=> page.html.flow <= CFS(9999)

C8_Witness ==
    /\ Shown
    /\ page.html.flow = CFS(10000)
    /\ page.html.range_max_lbl.plus
    /\ page.html.range_max_lbl.num < page.html.flow

Larger(a, b) == IF a > b THEN a ELSE b

\* C9 as written: the zoomed marker is clamp((flow - range_min) / span * 100,
\* 0, 100) with span = max(1, range_max - range_min) for a finite band and
\* span = max(7000, flow * 1.1) - 6200 for the top band.
C9_Original ==
    (Shown /\ page.html.flow >= 0) =>
        LET flow == page.html.flow
            k == SpecBandOf(flow)
        IN  page.html.btm_marker =
              IF k = 8
              THEN Clamp(Frac((flow - CFS(6200)) * 1000,
                              Larger(10 * CFS(7000), 11 * flow) - 10 * CFS(6200)))
              ELSE Clamp(Frac((flow - SpecBands[k].lo) * 100,
                              Larger(CFS(1), SpecBands[k].hi - SpecBands[k].lo)))

\* C9 as amended: the zoomed marker is clamp((flow - range_min) / span * 100,
\* 0, 100) with span = max(1, range_max - range_min) for every band; for the
\* top band range_max is the sentinel 99999, so span = 99999 - 6200 = 93799.
C9_ZoomedMarkerUsesSentinelSpan ==
    (Shown /\ page.html.flow >= 0) =>
        LET flow == page.html.flow
            k == SpecBandOf(flow)
        IN  page.html.btm_marker =
              IF k = 8
              THEN Clamp(Frac((flow - CFS(6200)) * 100, CFS(93799)))
              ELSE Clamp(Frac((flow - SpecBands[k].lo) * 100,
                              Larger(CFS(1), SpecBands[k].hi - SpecBands[k].lo)))

C9_Witness ==
    /\ Shown
    /\ page.html.flow = CFS(7000)
    /\ page.html.btm_marker = Frac(CFS(800) * 100, CFS(93799))
    /\ FracLess(page.html.btm_marker, Whole(1))

\* C10: the eight segments of the total-scale bar are contiguous from 0 to
\* 7000, and segment k has the lower bound and the colour of band k of the
\* classifier and its upper bound, except that the last segment ends at 7000;
\* so the segment drawn for the band of the displayed flow has the colour and
\* the bounds of the displayed status.
C10_SegmentsAgreeWithBands ==
    /\ Len(category_defs) = 8
    /\ category_defs[1][1] = 0
    /\ category_defs[8][2] = CFS(7000)
    /\ \A k \in 1..7 : category_defs[k][2] = category_defs[k + 1][1]
    /\ \A k \in 1..8 :
          /\ category_defs[k][1] = Band(k).range_min
          /\ category_defs[k][3] = Band(k).bg_color
          /\ category_defs[k][2] = IF k = 8 THEN CFS(7000) ELSE Band(k).range_max
    /\ (Shown /\ page.html.flow >= 0) =>
          LET k == SpecBandOf(page.html.flow)
              st == page.html.status
          IN  /\ page.html.bar_html[k].color = st.bg_color
              /\ category_defs[k][1] = st.range_min
              /\ category_defs[k][2] = IF k = 8 THEN CFS(7000) ELSE st.range_max
              /\ page.html.bar_html[k].width =
                    Frac((category_defs[k][2] - st.range_min) * 100, CFS(7000))

C10_Witness ==
    /\ Shown
    /\ page.html.flow = CFS(99999) + 1
    /\ page.html.status.range_max = CFS(99999)
    /\ category_defs[8][2] = CFS(7000)
    /\ page.html.bar_html[8].color = "#8B0000"

====
